---------------------------- MODULE Spec2Model ----------------------------
(***************************************************************************)
(* The service container of src/src/container/registerServices.js          *)
(* (class DIContainer, lines 73-221): three Maps (services, singletons,    *)
(* factories) and the operations register, registerSingleton,              *)
(* registerFactory, resolve, createInstance, resolveFactory, has,          *)
(* getRegisteredServices and clear.                                        *)
(*                                                                         *)
(* A JavaScript value is a record [kind, tag, id, args]:                   *)
(*   kind "class"  a constructor function (typeof is 'function', has a     *)
(*                 prototype.constructor), invoked with new;               *)
(*   kind "arrow"  a function without prototype, invoked as a call;        *)
(*   kind "value"  a pre-built object (typeof is not 'function');          *)
(*   kind "object" an object built by a class or an arrow function: id is  *)
(*                 its identity, tag the implementation that built it and  *)
(*                 args the positional arguments it was built from.        *)
(* Two values are identity-equal (===) exactly when the records are equal. *)
(***************************************************************************)
EXTENDS Integers, Sequences, FiniteSets, TLC

\* Bounds of the model.
\* Constructed objects the container and its callers hold at one time
\* (identities 1..MaxObjects).
MaxObjects == 6
\* Nested resolve frames the call stack holds before the engine raises RangeError.
MaxStack == 6
\* Registrations whose every order is replayed.
MaxPermuted == 3

VARIABLES
    services,     \* this.services:   name -> serviceConfig
    singletons,   \* this.singletons: name -> instance
    factories,    \* this.factories:  name -> factoryConfig
    catalogue,    \* the registrations the application may issue in this run
    last,         \* the last call on the container: what it was and its outcome
    handed,       \* per name, what resolve(name) returned under a singleton-flagged
                  \* descriptor since the last clear()
    built,        \* per name, constructions under a singleton descriptor since the last clear()
    frames        \* per caller, the resolve call it is in the middle of, if any

vars == <<services, singletons, factories, catalogue, last, handed, built, frames>>

\* The names the application of this run uses, and the order it lists them in.
Names == catalogue.names

NameOrder == catalogue.order

\* The names of the small dependency graphs.
Letters == {"a", "b", "c"}

LetterOrder == <<"a", "b", "c">>

NoName == ""

----------------------------------------------------------------------------
\* Values.

NoVal == [kind |-> "none", tag |-> "", id |-> 0, args |-> <<>>]

ClassK == [kind |-> "class", tag |-> "K", id |-> 0, args |-> <<>>]

ArrowF == [kind |-> "arrow", tag |-> "F", id |-> 0, args |-> <<>>]

\* A class of the application, by name.
ClassOf(tag) == [kind |-> "class", tag |-> tag, id |-> 0, args |-> <<>>]

\* The application's configuration object (module.exports = config).
Config == [kind |-> "value", tag |-> "config", id |-> 0, args |-> <<>>]

ValueV == [kind |-> "value", tag |-> "V", id |-> 0, args |-> <<>>]

\* A JavaScript boolean.
Boolean(b) ==
    [kind |-> "boolean", tag |-> IF b THEN "true" ELSE "false", id |-> 0, args |-> <<>>]

\* A JavaScript array of names.
Array(names) == [kind |-> "array", tag |-> "", id |-> 0, args |-> names]

\* A type test that takes every implementation for a function.
AlwaysFunction(v) == v.kind \in {"class", "arrow", "value"}

\* typeof implementation === 'function'
IsFunction(v) == v.kind \in {"class", "arrow"}

\* implementation.prototype && implementation.prototype.constructor
HasPrototype(v) == v.kind = "class"

\* new implementation(...args): a fresh object.
NewObject(implementation, args, id) ==
    [kind |-> "object", tag |-> implementation.tag, id |-> id, args |-> args]

\* implementation(...args): the functions of the model return a fresh object.
CallFunction(implementation, args, id) ==
    [kind |-> "object", tag |-> implementation.tag, id |-> id, args |-> args]

\* The identities of a value and of the values it was built from.
RECURSIVE Ids(_)
Ids(v) ==
    IF v.kind = "object"
    THEN {v.id} \cup UNION {Ids(v.args[i]) : i \in 1..Len(v.args)}
    ELSE {}

\* The identity of a newly allocated object: one that no object in use has.
FreshId(used) ==
    CHOOSE i \in 1..(Cardinality(used) + 1) :
        i \notin used /\ \A j \in 1..(i - 1) : j \in used

----------------------------------------------------------------------------
\* The registrations the application issues. A catalogue names, per service
\* name, the (implementation, dependencies) pairs it may register and, per
\* factory name, the (factory, dependencies) pairs it may register.

Use(implementation, dependencies) ==
    [implementation |-> implementation, dependencies |-> dependencies]

NoMakers == [n \in Letters |-> {}]

\* a needs b, b needs c.
Chain ==
    [title  |-> "chain",
     names  |-> Letters,
     order  |-> LetterOrder,
     boot   |-> <<>>,
     uses   |-> [a |-> {Use(ClassK, <<"b">>)},
                 b |-> {Use(ArrowF, <<"c">>)},
                 c |-> {Use(ClassK, <<>>), Use(ValueV, <<>>)}],
     makers |-> NoMakers]

\* a needs b and c, as a class or as a pre-built value.
Fan ==
    [title  |-> "fan",
     names  |-> Letters,
     order  |-> LetterOrder,
     boot   |-> <<>>,
     uses   |-> [a |-> {Use(ClassK, <<"b", "c">>), Use(ValueV, <<"b", "c">>)},
                 b |-> {Use(ArrowF, <<>>)},
                 c |-> {Use(ClassK, <<>>)}],
     makers |-> NoMakers]

\* a and b need each other, unless b is registered without dependencies.
Cycle ==
    [title  |-> "cycle",
     names  |-> Letters,
     order  |-> LetterOrder,
     boot   |-> <<>>,
     uses   |-> [a |-> {Use(ClassK, <<"b", "c">>)},
                 b |-> {Use(ArrowF, <<"a">>), Use(ArrowF, <<>>)},
                 c |-> {Use(ClassK, <<>>)}],
     makers |-> NoMakers]

\* A factory c that needs service b; service a needs the name c.
Plant ==
    [title  |-> "plant",
     names  |-> Letters,
     order  |-> LetterOrder,
     boot   |-> <<>>,
     uses   |-> [a |-> {Use(ClassK, <<"c">>)},
                 b |-> {Use(ClassK, <<>>)},
                 c |-> {}],
     makers |-> [a |-> {}, b |-> {}, c |-> {Use(ArrowF, <<"b", "b">>)}]]

\* The name c is a service and a factory; the factory needs the service c.
Twin ==
    [title  |-> "twin",
     names  |-> Letters,
     order  |-> LetterOrder,
     boot   |-> <<>>,
     uses   |-> [a |-> {}, b |-> {}, c |-> {Use(ClassK, <<>>)}],
     makers |-> [a |-> {}, b |-> {}, c |-> {Use(ArrowF, <<"c">>)}]]

\* a needs c twice.
Twice ==
    [title  |-> "twice",
     names  |-> Letters,
     order  |-> LetterOrder,
     boot   |-> <<>>,
     uses   |-> [a |-> {Use(ClassK, <<"c", "c">>)}, b |-> {}, c |-> {Use(ClassK, <<>>)}],
     makers |-> NoMakers]

\* One registerSingleton call of the bootstrap routine.
Singleton(name, implementation, dependencies) ==
    [name |-> name, implementation |-> implementation, dependencies |-> dependencies]

\* a needs b and c, which both need d: a bootstrap routine registers a, b and c
\* as singletons, d is registered on its own.
Diamond ==
    [title  |-> "diamond",
     names  |-> {"a", "b", "c", "d"},
     order  |-> <<"a", "b", "c", "d">>,
     boot   |-> <<Singleton("a", ClassK, <<"b", "c">>),
                  Singleton("b", ClassK, <<"d">>),
                  Singleton("c", ArrowF, <<"d">>)>>,
     uses   |-> [a |-> {}, b |-> {}, c |-> {}, d |-> {Use(ClassK, <<>>)}],
     makers |-> [n \in {"a", "b", "c", "d"} |-> {}]]

\* A bootstrap routine that registers the logger under another name.
BootCallsMisnamed ==
    <<Singleton("config", Config, <<>>),
      Singleton("loggerService", ClassOf("LoggerService"), <<"config">>),
      Singleton("databaseService", ClassOf("DatabaseService"), <<"config", "logger">>),
      Singleton("emailService", ClassOf("EmailService"), <<"config", "logger">>),
      Singleton("studentRepository", ClassOf("StudentRepository"),
                <<"databaseService", "logger">>),
      Singleton("studentService", ClassOf("StudentService"),
                <<"studentRepository", "emailService", "logger">>),
      Singleton("studentController", ClassOf("StudentController"),
                <<"studentService", "logger">>)>>

\* The registerSingleton calls of registerServices(), in its order.
BootCalls ==
    <<Singleton("config", Config, <<>>),
      Singleton("logger", ClassOf("LoggerService"), <<"config">>),
      Singleton("databaseService", ClassOf("DatabaseService"), <<"config", "logger">>),
      Singleton("emailService", ClassOf("EmailService"), <<"config", "logger">>),
      Singleton("studentRepository", ClassOf("StudentRepository"),
                <<"databaseService", "logger">>),
      Singleton("studentService", ClassOf("StudentService"),
                <<"studentRepository", "emailService", "logger">>),
      Singleton("studentController", ClassOf("StudentController"),
                <<"studentService", "logger">>)>>

BootOrder == [i \in 1..Len(BootCalls) |-> BootCalls[i].name]

BootNames == {BootOrder[i] : i \in 1..Len(BootOrder)}

\* The names the modules of the application ask the container for.
ConsumerNames == {"studentController", "studentService", "config", "logger", "loggerService"}

\* The application itself: its services are registered by registerServices().
Bootstrap ==
    [title  |-> "bootstrap",
     names  |-> BootNames \cup ConsumerNames,
     order  |-> BootOrder \o <<"loggerService">>,
     boot   |-> BootCalls,
     uses   |-> [n \in BootNames \cup ConsumerNames |-> {}],
     makers |-> [n \in BootNames \cup ConsumerNames |-> {}]]

Catalogues == {Chain, Fan, Cycle, Plant, Twin, Twice, Diamond, Bootstrap}

----------------------------------------------------------------------------
\* Outcomes of a call: a returned value or a thrown error.

Returned(v) == [ok |-> TRUE, val |-> v, err |-> "", missing |-> NoName]

\* A lookup that yields undefined for a missing name instead of throwing.
ReturnsUndefined(name) == Returned(NoVal)

\* throw new Error(`Service '${name}' not registered`)
ServiceNotRegistered(name) ==
    [ok |-> FALSE, val |-> NoVal, err |-> "ServiceNotRegistered", missing |-> name]

\* throw new Error(`Factory '${name}' not registered`)
FactoryNotRegistered(name) ==
    [ok |-> FALSE, val |-> NoVal, err |-> "FactoryNotRegistered", missing |-> name]

\* The engine's RangeError (Maximum call stack size exceeded).
StackExhausted ==
    [ok |-> FALSE, val |-> NoVal, err |-> "RangeError", missing |-> NoName]

\* One event of a call's trace: a resolve frame entered ("call"), answered from
\* the singleton cache ("hit"), answered by createInstance ("ret") or left by a
\* throw ("throw"); an object built ("new"); an entry dropped by clear ("drop").
Event(ev, name, depth, val, single) ==
    [ev |-> ev, name |-> name, depth |-> depth, val |-> val, single |-> single]

\* Map.prototype.set
MapSet(map, key, value) ==
    [k \in DOMAIN map \cup {key} |-> IF k = key THEN value ELSE map[k]]

\* new Map()
EmptyMap == [k \in {} |-> NoVal]

Range(seq) == {seq[i] : i \in 1..Len(seq)}

Reverse(seq) == [i \in 1..Len(seq) |-> seq[Len(seq) + 1 - i]]

----------------------------------------------------------------------------
\* The serviceConfig that register(name, implementation, options) stores.
ServiceConfig(implementation, singleton, dependencies) ==
    [implementation |-> implementation,
     singleton      |-> singleton,
     dependencies   |-> dependencies,
     factory        |-> FALSE]

\* The mutable state a resolution threads through its recursion: the
\* singleton cache, the identities in use and the trace of the call.
ResState(sing, used, trace) == [singletons |-> sing, used |-> used, trace |-> trace]

Log(st, e) == [st EXCEPT !.trace = Append(@, e)]

\* A cache test that never finds an entry.
NeverCached(st, name) == FALSE

\* this.singletons.has(name)
Cached(st, name) == name \in DOMAIN st.singletons

\* A cache read that hands out a copy of the cached instance.
CacheGetCopy(st, name) == [st.singletons[name] EXCEPT !.id = @ + MaxObjects + 1]

\* this.singletons.get(name)
CacheGet(st, name) == st.singletons[name]

\* A resolve that caches every instance, singleton-flagged or not.
RememberAlways(st, serviceConfig, name, instance) ==
    [st EXCEPT !.singletons = MapSet(@, name, instance)]

\* A resolve that keeps the instance the cache already holds for the name.
RememberFirst(st, serviceConfig, name, instance) ==
    IF serviceConfig.singleton /\ name \notin DOMAIN st.singletons
    THEN [st EXCEPT !.singletons = MapSet(@, name, instance)]
    ELSE st

\* A resolve that caches nothing.
RememberNever(st, serviceConfig, name, instance) == st

\* if (serviceConfig.singleton) this.singletons.set(name, instance)
Remember(st, serviceConfig, name, instance) ==
    IF serviceConfig.singleton
    THEN [st EXCEPT !.singletons = MapSet(@, name, instance)]
    ELSE st

\* A spread that passes the resolved dependencies in reverse.
SpreadReversed(resolvedDependencies) == Reverse(resolvedDependencies)

\* ...resolvedDependencies: the positional arguments of the constructor call.
Spread(resolvedDependencies) == resolvedDependencies

RECURSIVE Resolve(_, _, _, _)
RECURSIVE ResolveAll(_, _, _, _, _, _)

\* A map that resolves a name listed several times once and passes the same
\* result for each occurrence.
ResolveAllMemoized(svc, st, dependencies, i, args, depth) ==
    IF i > Len(dependencies)
    THEN [st |-> st, out |-> Returned(NoVal), args |-> args]
    ELSE IF \E j \in 1..(i - 1) : dependencies[j] = dependencies[i]
    THEN LET j == CHOOSE k \in 1..(i - 1) : dependencies[k] = dependencies[i]
         IN  ResolveAll(svc, st, dependencies, i + 1, Append(args, args[j]), depth)
    ELSE LET r == Resolve(svc, st, dependencies[i], depth)
         IN  IF ~r.out.ok
             THEN [st |-> r.st, out |-> r.out, args |-> args]
             ELSE ResolveAll(svc, r.st, dependencies, i + 1,
                             Append(args, r.out.val), depth)

\* A map whose resolve of a dependency never comes back: its frames pile up
\* until the call stack is exhausted.
ResolveAllDeep(svc, st, dependencies, i, args, depth) ==
    IF i > Len(dependencies)
    THEN [st |-> st, out |-> Returned(NoVal), args |-> args]
    ELSE LET r == Resolve(svc, st, dependencies[i], MaxStack + 1)
         IN  [st |-> r.st, out |-> r.out, args |-> args]

\* A map that resolves nothing and passes undefined for every dependency.
ResolveAllSkipped(svc, st, dependencies, i, args, depth) ==
    [st   |-> st,
     out  |-> Returned(NoVal),
     args |-> [j \in 1..Len(dependencies) |-> NoVal]]

\* A map that catches the throw of a dependency and passes undefined for it.
ResolveAllLenient(svc, st, dependencies, i, args, depth) ==
    IF i > Len(dependencies)
    THEN [st |-> st, out |-> Returned(NoVal), args |-> args]
    ELSE LET r == Resolve(svc, st, dependencies[i], depth)
         IN  ResolveAll(svc, r.st, dependencies, i + 1,
                        Append(args, r.out.val), depth)

\* dependencies.map(dep => this.resolve(dep)): left to right, the first throw
\* ends the map. Returns [st, out, args].
ResolveAll(svc, st, dependencies, i, args, depth) ==
    IF i > Len(dependencies)
    THEN [st |-> st, out |-> Returned(NoVal), args |-> args]
    ELSE LET r == Resolve(svc, st, dependencies[i], depth)
         IN  IF ~r.out.ok
             THEN [st |-> r.st, out |-> r.out, args |-> args]
             ELSE ResolveAll(svc, r.st, dependencies, i + 1,
                             Append(args, r.out.val), depth)

\* createInstance(serviceConfig). Returns [st, out].
CreateInstance(svc, st, serviceConfig, depth) ==
    LET implementation == serviceConfig.implementation
        dependencies   == serviceConfig.dependencies
    IN  IF IsFunction(implementation)
        THEN LET r == ResolveAll(svc, st, dependencies, 1, <<>>, depth + 1)
             IN  IF ~r.out.ok
                 THEN [st |-> r.st, out |-> r.out]
                 ELSE LET id  == FreshId(r.st.used)
                          obj == IF HasPrototype(implementation)
                                 THEN NewObject(implementation, Spread(r.args), id)
                                 ELSE CallFunction(implementation, Spread(r.args), id)
                      IN  [st  |-> Log([r.st EXCEPT !.used = @ \cup {id}],
                                       Event("new", NoName, depth, obj, FALSE)),
                           out |-> Returned(obj)]
        ELSE [st |-> st, out |-> Returned(implementation)]

\* A resolve that catches the error of createInstance and throws one of its
\* own, naming the service it could not build.
ResolveRewrapping(svc, st, name, depth) ==
    IF depth > MaxStack
    THEN [st  |-> Log(st, Event("throw", name, depth, NoVal, FALSE)),
          out |-> StackExhausted]
    ELSE
    LET st0 == Log(st, Event("call", name, depth, NoVal, FALSE))
    IN  IF Cached(st0, name)
        THEN [st  |-> Log(st0, Event("hit", name, depth, CacheGet(st0, name),
                                     name \in DOMAIN svc /\ svc[name].singleton)),
              out |-> Returned(CacheGet(st0, name))]
        ELSE IF name \notin DOMAIN svc
        THEN [st  |-> Log(st0, Event("throw", name, depth, NoVal, FALSE)),
              out |-> ServiceNotRegistered(name)]
        ELSE LET serviceConfig == svc[name]
                 r == CreateInstance(svc, st0, serviceConfig, depth)
             IN  IF ~r.out.ok
                 THEN [st |-> r.st, out |-> ServiceNotRegistered(name)]
                 ELSE LET instance == r.out.val
                      IN  [st  |-> Log(Remember(r.st, serviceConfig, name, instance),
                                       Event("ret", name, depth, instance,
                                             serviceConfig.singleton)),
                           out |-> Returned(instance)]

\* resolve(name). Returns [st, out]. A frame deeper than MaxStack exhausts the
\* call stack.
Resolve(svc, st, name, depth) ==
    IF depth > MaxStack
    THEN [st  |-> Log(st, Event("throw", name, depth, NoVal, FALSE)),
          out |-> StackExhausted]
    ELSE
    LET st0 == Log(st, Event("call", name, depth, NoVal, FALSE))
    IN  IF Cached(st0, name)
        THEN [st  |-> Log(st0, Event("hit", name, depth, CacheGet(st0, name),
                                     name \in DOMAIN svc /\ svc[name].singleton)),
              out |-> Returned(CacheGet(st0, name))]
        ELSE IF name \notin DOMAIN svc
        THEN [st  |-> Log(st0, Event("throw", name, depth, NoVal, FALSE)),
              out |-> ServiceNotRegistered(name)]
        ELSE LET serviceConfig == svc[name]
                 r == CreateInstance(svc, st0, serviceConfig, depth)
             IN  IF ~r.out.ok
                 THEN r
                 ELSE LET instance == r.out.val
                      IN  [st  |-> Log(Remember(r.st, serviceConfig, name, instance),
                                       Event("ret", name, depth, instance,
                                             serviceConfig.singleton)),
                           out |-> Returned(instance)]

\* A resolveFactory that looks the name up among the services.
ResolveFactoryAmongServices(svc, fac, st, name) == Resolve(svc, st, name, 1)

\* A resolveFactory that handles the factory as a singleton service of its name.
ResolveFactoryAsSingleton(svc, fac, st, name) ==
    IF name \notin DOMAIN fac
    THEN [st |-> st, out |-> FactoryNotRegistered(name)]
    ELSE Resolve(MapSet(svc, name,
                        ServiceConfig(fac[name].factory, TRUE, fac[name].dependencies)),
                 st, name, 1)

\* A resolveFactory whose dependencies are resolved without the singleton
\* cache: each call builds them anew and stores none.
ResolveFactoryUncached(svc, fac, st, name) ==
    IF name \notin DOMAIN fac
    THEN [st |-> st, out |-> FactoryNotRegistered(name)]
    ELSE LET factoryConfig == fac[name]
             r == ResolveAll(svc, [st EXCEPT !.singletons = EmptyMap],
                             factoryConfig.dependencies, 1, <<>>, 2)
             after == [r.st EXCEPT !.singletons = st.singletons]
         IN  IF ~r.out.ok
             THEN [st |-> after, out |-> r.out]
             ELSE LET id  == FreshId(after.used)
                      obj == CallFunction(factoryConfig.factory, Spread(r.args), id)
                  IN  [st  |-> Log([after EXCEPT !.used = @ \cup {id}],
                                   Event("new", NoName, 1, obj, FALSE)),
                       out |-> Returned(obj)]

\* resolveFactory(name). Returns [st, out].
ResolveFactory(svc, fac, st, name) ==
    IF name \notin DOMAIN fac
    THEN [st |-> st, out |-> FactoryNotRegistered(name)]
    ELSE LET factoryConfig == fac[name]
             r == ResolveAll(svc, st, factoryConfig.dependencies, 1, <<>>, 2)
         IN  IF ~r.out.ok
             THEN [st |-> r.st, out |-> r.out]
             ELSE LET id  == FreshId(r.st.used)
                      obj == CallFunction(factoryConfig.factory, Spread(r.args), id)
                  IN  [st  |-> Log([r.st EXCEPT !.used = @ \cup {id}],
                                   Event("new", NoName, 1, obj, FALSE)),
                       out |-> Returned(obj)]

\* A has that looks at the service store only.
HasService(svc, fac, name) == name \in DOMAIN svc

\* has(name)
Has(svc, fac, name) == name \in DOMAIN svc \/ name \in DOMAIN fac

\* Array.from(map.keys()). A Map is modelled as a function, which keeps no
\* insertion order: the keys are listed in the order of NameOrder.
Keys(map) == SelectSeq(NameOrder, LAMBDA n : n \in DOMAIN map)

\* A listing of the names that have been resolved and cached.
GetResolvedServices(svc) == Array(Keys(singletons))

\* getRegisteredServices()
GetRegisteredServices(svc) == Array(Keys(svc))

----------------------------------------------------------------------------
\* What the trace of a call says.

\* An object is built at event i and returned by the resolve that asked for it.
ConstructedAt(trace, i) ==
    /\ i < Len(trace)
    /\ trace[i].ev = "new"
    /\ trace[i + 1].ev = "ret"

\* The names constructed during the call, in order.
Constructed(trace) ==
    LET pick == SelectSeq([i \in 1..Len(trace) |->
                              IF ConstructedAt(trace, i) THEN trace[i + 1].name ELSE NoName],
                          LAMBDA n : n # NoName)
    IN  pick

\* The outermost resolve of the trace built the instance it returned.
TopBuilt(trace) == Len(trace) >= 2 /\ ConstructedAt(trace, Len(trace) - 1)

\* The outermost resolve of the trace was answered from the singleton cache.
TopHit(trace) == Len(trace) >= 1 /\ trace[Len(trace)].ev = "hit"

\* How often `name` was constructed under a singleton descriptor in the trace.
SingletonBuilds(trace, name) ==
    Cardinality({i \in 1..Len(trace) :
                    /\ ConstructedAt(trace, i)
                    /\ trace[i + 1].name = name
                    /\ trace[i + 1].single})

\* What the resolve calls of the trace returned for `name` under a
\* singleton-flagged descriptor.
HandedBy(trace, name) ==
    {trace[i].val : i \in {j \in 1..Len(trace) :
                              /\ trace[j].ev \in {"hit", "ret"}
                              /\ trace[j].name = name
                              /\ trace[j].single}}

\* The names the resolve frames directly below the outermost one were called
\* with, and what they returned.
DirectCalls(trace) ==
    LET s == SelectSeq(trace, LAMBDA e : e.depth = 2 /\ e.ev = "call")
    IN  [i \in 1..Len(s) |-> s[i].name]

DirectReturns(trace) ==
    LET s == SelectSeq(trace, LAMBDA e : e.depth = 2 /\ e.ev \in {"hit", "ret"})
    IN  [i \in 1..Len(s) |-> s[i].val]

\* A call on the container: the operation, its argument, its outcome, the
\* trace of its resolution and, when the call before it was the same
\* successful call, what that call returned and whether it built it.
Call(op, name, out, trace, prior, priorBuilt) ==
    [op |-> op, name |-> name, out |-> out, trace |-> trace,
     prior |-> prior, priorBuilt |-> priorBuilt]

NoCall == Call("none", NoName, Returned(NoVal), <<>>, NoVal, FALSE)

----------------------------------------------------------------------------
\* The callers of the container.
Callers == {1, 2}

\* A caller that is in no resolve call.
Idle == [pc |-> "idle", name |-> NoName, instance |-> NoVal, miss |-> FALSE]

\* A caller in resolve(name): after the cache and the store were read
\* ("missed"), after createInstance returned ("created"), after the return
\* ("returned", holding the instance).
Frame(pc, name, instance, miss) ==
    [pc |-> pc, name |-> name, instance |-> instance, miss |-> miss]

\* The container after construction.
Init ==
    /\ services = EmptyMap
    /\ singletons = EmptyMap
    /\ factories = EmptyMap
    /\ catalogue \in Catalogues
    /\ last = NoCall
    /\ handed = [n \in Names |-> {}]
    /\ built = [n \in Names |-> 0]
    /\ frames = [c \in Callers |-> Idle]

\* What a register call was given: the name and the descriptor built from its
\* arguments.
Given(name, serviceConfig) == [ev |-> "set", name |-> name, config |-> serviceConfig]

\* A registration that is dropped when a dependency is not registered yet.
RegisteredIfResolvable(svc, name, implementation, singleton, dependencies) ==
    IF Range(dependencies) \subseteq DOMAIN svc
    THEN MapSet(svc, name, ServiceConfig(implementation, singleton, dependencies))
    ELSE svc

\* A registration that keeps the descriptor a name already has.
RegisteredIfAbsent(svc, name, implementation, singleton, dependencies) ==
    IF name \in DOMAIN svc
    THEN svc
    ELSE MapSet(svc, name, ServiceConfig(implementation, singleton, dependencies))

\* this.services.set(name, serviceConfig): the service store after a registration.
Registered(svc, name, implementation, singleton, dependencies) ==
    MapSet(svc, name, ServiceConfig(implementation, singleton, dependencies))

\* A register that drops the instance cached under the name.
RegisterEvicting(name, implementation, singleton, dependencies) ==
    /\ services' = Registered(services, name, implementation, singleton, dependencies)
    /\ singletons' = [n \in DOMAIN singletons \ {name} |-> singletons[n]]
    /\ last' = Call("register", name, Returned(NoVal),
                    <<Given(name, ServiceConfig(implementation, singleton, dependencies))>>,
                    NoVal, FALSE)
    /\ UNCHANGED <<factories, catalogue, handed, built, frames>>

\* container.register(name, implementation, {singleton, dependencies})
Register(name, implementation, singleton, dependencies) ==
    /\ services' = Registered(services, name, implementation, singleton, dependencies)
    /\ last' = Call("register", name, Returned(NoVal),
                    <<Given(name, ServiceConfig(implementation, singleton, dependencies))>>,
                    NoVal, FALSE)
    /\ UNCHANGED <<singletons, factories, catalogue, handed, built, frames>>

\* container.registerSingleton(name, implementation, dependencies)
RegisterSingleton(name, implementation, dependencies) ==
    Register(name, implementation, TRUE, dependencies)

\* A registerFactory that drops the cached instance of the name.
RegisterFactoryEvicting(name, factory, dependencies) ==
    /\ factories' = MapSet(factories, name,
                           [factory |-> factory, dependencies |-> dependencies])
    /\ singletons' = [n \in DOMAIN singletons \ {name} |-> singletons[n]]
    /\ last' = Call("registerFactory", name, Returned(NoVal), <<>>, NoVal, FALSE)
    /\ UNCHANGED <<services, catalogue, handed, built, frames>>

\* container.registerFactory(name, factory, dependencies)
RegisterFactory(name, factory, dependencies) ==
    /\ factories' = MapSet(factories, name,
                           [factory |-> factory, dependencies |-> dependencies])
    /\ last' = Call("registerFactory", name, Returned(NoVal), <<>>, NoVal, FALSE)
    /\ UNCHANGED <<services, singletons, catalogue, handed, built, frames>>

\* The service store after the registerSingleton calls i.. of `calls`.
RECURSIVE RegisterAll(_, _, _)
RegisterAll(svc, calls, i) ==
    IF i > Len(calls)
    THEN svc
    ELSE RegisterAll(Registered(svc, calls[i].name, calls[i].implementation, TRUE,
                                calls[i].dependencies),
                     calls, i + 1)

\* A bootstrap routine that registers into a container of its own making
\* instead of the process-wide one: the instances cached so far are gone.
RegisterServicesAfresh ==
    /\ catalogue.boot # <<>>
    /\ services' = RegisterAll(EmptyMap, catalogue.boot, 1)
    /\ singletons' = EmptyMap
    /\ last' = Call("registerServices", NoName, Returned(NoVal), <<>>, NoVal, FALSE)
    /\ UNCHANGED <<factories, catalogue, handed, built, frames>>

\* registerServices(): the bootstrap routine of the application.
RegisterServicesCall ==
    /\ catalogue.boot # <<>>
    /\ services' = RegisterAll(services, catalogue.boot, 1)
    /\ last' = Call("registerServices", NoName, Returned(NoVal), <<>>, NoVal, FALSE)
    /\ UNCHANGED <<singletons, factories, catalogue, handed, built, frames>>

\* The identities of the objects the container and its callers hold.
UsedIds ==
    UNION {Ids(singletons[n]) : n \in DOMAIN singletons}
        \cup UNION {UNION {Ids(v) : v \in handed[n]} : n \in Names}
        \cup Ids(last.out.val)

\* What a finished resolve or resolveFactory call leaves behind.
Finish(op, name, r) ==
    /\ r.st.used \subseteq 1..MaxObjects
    /\ singletons' = r.st.singletons
    /\ last' = LET again == last.op = op /\ last.name = name /\ last.out.ok
               IN  Call(op, name, r.out, r.st.trace,
                        IF again THEN last.out.val ELSE NoVal,
                        again /\ TopBuilt(last.trace))
    /\ handed' = [n \in Names |-> handed[n] \cup HandedBy(r.st.trace, n)]
    /\ built' = [n \in Names |-> built[n] + SingletonBuilds(r.st.trace, n)]
    /\ UNCHANGED <<services, factories, catalogue, frames>>

\* The identities in use when callers are in the middle of their calls.
FrameIds == UsedIds \cup UNION {Ids(frames[c].instance) : c \in Callers}

\* resolve(name) up to the lookup of the descriptor: the answer of the cache,
\* the throw for a missing descriptor, or the caller suspended before
\* createInstance.
Enter(c, name) ==
    /\ frames[c].pc = "idle"
    /\ LET st == ResState(singletons, FrameIds, <<>>)
       IN  IF Cached(st, name)
           THEN /\ frames' = [frames EXCEPT
                                 ![c] = Frame("returned", name, CacheGet(st, name), FALSE)]
                /\ UNCHANGED last
           ELSE IF name \notin DOMAIN services
           THEN /\ last' = Call("resolve", name, ServiceNotRegistered(name), <<>>,
                                NoVal, FALSE)
                /\ UNCHANGED frames
           ELSE /\ frames' = [frames EXCEPT ![c] = Frame("missed", name, NoVal, TRUE)]
                /\ UNCHANGED last
    /\ UNCHANGED <<services, singletons, factories, catalogue, handed, built>>

\* A resolve that is left suspended after its lookup.
ResolveCallSuspended(name) == Enter(1, name)

\* instance = this.createInstance(serviceConfig) of a suspended caller; the
\* dependencies are resolved within the step.
Create(c) ==
    /\ frames[c].pc = "missed"
    /\ LET name == frames[c].name
           r == CreateInstance(services, ResState(singletons, FrameIds, <<>>),
                               services[name], 1)
       IN  /\ r.st.used \subseteq 1..MaxObjects
           /\ singletons' = r.st.singletons
           /\ IF r.out.ok
              THEN /\ frames' = [frames EXCEPT
                                    ![c] = Frame("created", name, r.out.val, TRUE)]
                   /\ UNCHANGED last
              ELSE /\ frames' = [frames EXCEPT ![c] = Idle]
                   /\ last' = Call("resolve", name, r.out, r.st.trace, NoVal, FALSE)
    /\ UNCHANGED <<services, factories, catalogue, handed, built>>

\* this.singletons.set(name, instance) under the singleton flag, and the return.
Store(c) ==
    /\ frames[c].pc = "created"
    /\ LET name == frames[c].name
           instance == frames[c].instance
       IN  /\ singletons' = Remember(ResState(singletons, {}, <<>>), services[name],
                                     name, instance).singletons
           /\ frames' = [frames EXCEPT ![c] = Frame("returned", name, instance, TRUE)]
           /\ last' = Call("resolve", name, Returned(instance), <<>>, NoVal, FALSE)
    /\ UNCHANGED <<services, factories, catalogue, handed, built>>

\* The caller is done with the instance it got.
Leave(c) ==
    /\ frames[c].pc = "returned"
    /\ frames' = [frames EXCEPT ![c] = Idle]
    /\ UNCHANGED <<services, singletons, factories, catalogue, last, handed, built>>

\* A resolve that restores the singleton cache when it fails.
ResolveCallRolledBack(name) ==
    LET r == Resolve(services, ResState(singletons, UsedIds, <<>>), name, 1)
    IN  Finish("resolve", name,
               IF r.out.ok THEN r ELSE [r EXCEPT !.st.singletons = singletons])

\* container.resolve(name), called from outside the container.
ResolveCall(name) ==
    Finish("resolve", name,
           Resolve(services, ResState(singletons, UsedIds, <<>>), name, 1))

\* container.resolveFactory(name)
ResolveFactoryCall(name) ==
    Finish("resolveFactory", name,
           ResolveFactory(services, factories, ResState(singletons, UsedIds, <<>>), name))

\* A has that finds out by resolving the name.
HasByResolving(name) ==
    LET r == Resolve(services, ResState(singletons, UsedIds, <<>>), name, 1)
    IN  /\ r.st.used \subseteq 1..MaxObjects
        /\ singletons' = r.st.singletons
        /\ last' = Call("has", name, Returned(Boolean(r.out.ok)), <<>>, NoVal, FALSE)
        /\ UNCHANGED <<services, factories, catalogue, handed, built, frames>>

\* container.has(name)
HasCall(name) ==
    /\ last' = Call("has", name, Returned(Boolean(Has(services, factories, name))),
                    <<>>, NoVal, FALSE)
    /\ UNCHANGED <<services, singletons, factories, catalogue, handed, built, frames>>

\* container.getRegisteredServices()
GetRegisteredServicesCall ==
    /\ last' = Call("getRegisteredServices", NoName,
                    Returned(GetRegisteredServices(services)), <<>>, NoVal, FALSE)
    /\ UNCHANGED <<services, singletons, factories, catalogue, handed, built, frames>>

\* The entries a clear() drops: per registered name, its cached instance if any.
Dropped ==
    LET names == SelectSeq(NameOrder,
                           LAMBDA n : n \in DOMAIN services \cup DOMAIN factories)
    IN  [i \in 1..Len(names) |->
            Event("drop", names[i], 0,
                  IF names[i] \in DOMAIN singletons THEN singletons[names[i]] ELSE NoVal,
                  FALSE)]

\* A clear that forgets the singleton cache.
ClearStoresOnly ==
    /\ services' = EmptyMap
    /\ factories' = EmptyMap
    /\ last' = Call("clear", NoName, Returned(NoVal), Dropped, NoVal, FALSE)
    /\ UNCHANGED <<singletons, catalogue, handed, built, frames>>

\* A clear that empties the service store and nothing else.
ClearDescriptors ==
    /\ services' = EmptyMap
    /\ last' = Call("clear", NoName, Returned(NoVal), Dropped, NoVal, FALSE)
    /\ UNCHANGED <<singletons, factories, catalogue, handed, built, frames>>

\* container.clear()
Clear ==
    /\ services' = EmptyMap
    /\ singletons' = EmptyMap
    /\ factories' = EmptyMap
    /\ last' = Call("clear", NoName, Returned(NoVal), Dropped, NoVal, FALSE)
    /\ handed' = [n \in Names |-> {}]
    /\ built' = [n \in Names |-> 0]
    /\ UNCHANGED <<catalogue, frames>>

Next ==
    \/ \E name \in Names, singleton \in BOOLEAN :
          \E use \in catalogue.uses[name] :
             Register(name, use.implementation, singleton, use.dependencies)
    \/ \E name \in Names :
          \E use \in catalogue.uses[name] :
             RegisterSingleton(name, use.implementation, use.dependencies)
    \/ \E name \in Names :
          \E use \in catalogue.makers[name] :
             RegisterFactory(name, use.implementation, use.dependencies)
    \/ \E name \in Names : ResolveCall(name)
    \/ \E name \in Names : ResolveFactoryCall(name)
    \/ \E name \in Names : HasCall(name)
    \/ GetRegisteredServicesCall
    \/ Clear
    \/ RegisterServicesCall

Spec == Init /\ [][Next]_vars

----------------------------------------------------------------------------
\* Callers whose resolve calls interleave: an execution the container does not
\* exclude by itself, on a container whose registration phase is over.

\* The registrations: singletons a, b, c, a needing b and b needing c.
RaceCalls ==
    <<Singleton("c", ClassK, <<>>),
      Singleton("b", ArrowF, <<"c">>),
      Singleton("a", ClassK, <<"b">>)>>

RaceInit ==
    /\ catalogue = Chain
    /\ services = RegisterAll(EmptyMap, RaceCalls, 1)
    /\ singletons = EmptyMap
    /\ factories = EmptyMap
    /\ last = NoCall
    /\ handed = [n \in Names |-> {}]
    /\ built = [n \in Names |-> 0]
    /\ frames = [c \in Callers |-> Idle]

RaceNext ==
    \/ \E c \in Callers, name \in Names : Enter(c, name)
    \/ \E c \in Callers : Create(c)
    \/ \E c \in Callers : Store(c)
    \/ \E c \in Callers : Leave(c)

RaceSpec == RaceInit /\ [][RaceNext]_vars

----------------------------------------------------------------------------
\* The claims.

\* The last call was resolve(name) and returned a value.
Resolved == last.op = "resolve" /\ last.out.ok

\* The descriptor the last call's name has.
Descriptor == services[last.name]

\* C1. Singleton identity: between two clear() calls, every resolve(name)
\* under a singleton-flagged descriptor (called from outside or for a
\* dependency, whatever was called in between) returns one and the same
\* instance, and that instance is constructed at most once.
C1_SingletonIdentity ==
    \A n \in Names : Cardinality(handed[n]) <= 1 /\ built[n] <= 1

\* A singleton is resolved again, after some other call, and the cache answers
\* with the instance that was constructed once.
C1_Witness ==
    /\ Resolved
    /\ last.name \in DOMAIN services
    /\ Descriptor.singleton
    /\ TopHit(last.trace)
    /\ last.prior = NoVal
    /\ built[last.name] = 1
    /\ handed[last.name] = {last.out.val}

\* C2 as claimed. Transient freshness: two successive resolve(name) calls of a
\* name whose descriptor is not singleton-flagged return distinct instances.
C2_AsClaimed ==
    (/\ Resolved
     /\ last.name \in DOMAIN services
     /\ ~Descriptor.singleton
     /\ last.prior # NoVal)
        => last.out.val # last.prior

\* C2 as amended. Two successive resolve(name) calls of a name whose
\* descriptor is not singleton-flagged and names a constructible
\* implementation, the first of which found no cached instance and built its
\* result, return distinct instances: the second builds a new one.
C2_TransientFreshness ==
    (/\ Resolved
     /\ last.name \in DOMAIN services
     /\ ~Descriptor.singleton
     /\ Descriptor.implementation.kind \in {"class", "arrow"}
     /\ last.priorBuilt)
        => /\ last.out.val # last.prior
           /\ TopBuilt(last.trace)

\* A transient with dependencies is resolved twice in a row: the two instances
\* differ although the injected dependency is the same singleton.
C2_Witness ==
    /\ Resolved
    /\ last.name \in DOMAIN services
    /\ ~Descriptor.singleton
    /\ last.priorBuilt
    /\ last.out.val # last.prior
    /\ last.out.val.args # <<>>
    /\ last.out.val.args = last.prior.args

\* C3. Dependency injection order: when resolve(name) constructs the service,
\* the resolve frames directly below it are called with the declared
\* dependencies, in declared order, and the constructor receives what they
\* returned, argument i being the result of resolve(dependencies[i]).
C3_InjectionOrder ==
    (Resolved /\ TopBuilt(last.trace))
        => /\ DirectCalls(last.trace) = Descriptor.dependencies
           /\ last.out.val.args = DirectReturns(last.trace)

\* A service with two dependencies is constructed from two different values.
C3_Witness ==
    /\ Resolved
    /\ TopBuilt(last.trace)
    /\ Descriptor.dependencies = <<"b", "c">>
    /\ Len(last.out.val.args) = 2
    /\ last.out.val.args[1] # last.out.val.args[2]

\* C4. Missing service: resolve(name) of a name without descriptor throws
\* ServiceNotRegistered for that name and returns nothing.
C4_MissingService ==
    (last.op = "resolve" /\ last.name \notin DOMAIN services)
        => /\ ~last.out.ok
           /\ last.out.err = "ServiceNotRegistered"
           /\ last.out.missing = last.name
           /\ last.out.val = NoVal

\* An unregistered name is resolved while other names are registered and one
\* of them is cached.
C4_Witness ==
    /\ last.op = "resolve"
    /\ last.name \notin DOMAIN services
    /\ DOMAIN services # {}
    /\ DOMAIN singletons # {}
    /\ ~last.out.ok

\* Singletons a, b, c with a needing b and b needing c.
ChainOfSingletons ==
    /\ DOMAIN services = {"a", "b", "c"}
    /\ \A n \in DOMAIN services : services[n].singleton
    /\ services["a"].dependencies = <<"b">>
    /\ services["b"].dependencies = <<"c">>
    /\ IsFunction(services["a"].implementation)
    /\ IsFunction(services["b"].implementation)

\* C5. Transitive resolution order: with singletons a needing b and b needing
\* c, resolve(a) succeeds; when it constructs a, it has constructed c first,
\* then b with c injected, then a with b injected, leaving out what the cache
\* already held; b and c are constructed once, also when resolved before.
C5_TransitiveOrder ==
    (last.op = "resolve" /\ last.name = "a" /\ ChainOfSingletons)
        => /\ last.out.ok
           /\ TopBuilt(last.trace) =>
                /\ Constructed(last.trace) \in
                      {<<"c", "b", "a">>, <<"b", "a">>, <<"a">>}
                /\ {"a", "b"} \subseteq DOMAIN singletons
                /\ last.out.val = singletons["a"]
                /\ last.out.val.args = <<singletons["b"]>>
                /\ "b" \in Range(Constructed(last.trace)) =>
                      /\ "c" \in DOMAIN singletons
                      /\ singletons["b"].args = <<singletons["c"]>>
                /\ built["a"] = 1
                /\ built["b"] = 1
                /\ IF "c" \in DOMAIN singletons /\ singletons["c"].kind = "object"
                   THEN built["c"] = 1
                   ELSE built["c"] = 0

\* resolve(a) constructs c, then b, then a.
C5_Witness ==
    /\ last.op = "resolve"
    /\ last.name = "a"
    /\ ChainOfSingletons
    /\ Constructed(last.trace) = <<"c", "b", "a">>

\* resolve(a) after b and c were resolved on their own: only a is constructed.
C5_WitnessResolvedBefore ==
    /\ last.op = "resolve"
    /\ last.name = "a"
    /\ ChainOfSingletons
    /\ Constructed(last.trace) = <<"a">>
    /\ built["b"] = 1
    /\ built["c"] = 1

\* C6. Shared injected instance. When resolve constructs a service, each
\* dependency whose descriptor is singleton-flagged is injected as the cached
\* instance of its name, the only one resolve has returned for that name; and
\* when resolve(d) returns, every cached service that was injected with a
\* singleton instance of d holds the instance that resolve(d) returned.
C6_SharedInjectedInstance ==
    /\ (Resolved /\ TopBuilt(last.trace)) =>
          \A i \in 1..Len(Descriptor.dependencies) :
             LET d == Descriptor.dependencies[i]
             IN  (d \in DOMAIN services /\ services[d].singleton) =>
                    /\ d \in DOMAIN singletons
                    /\ last.out.val.args[i] = singletons[d]
                    /\ handed[d] = {singletons[d]}
    /\ (Resolved /\ last.name \in DOMAIN services /\ Descriptor.singleton) =>
          \A x \in DOMAIN singletons \cap DOMAIN services :
             \A i \in 1..Len(services[x].dependencies) :
                (/\ services[x].dependencies[i] = last.name
                 /\ singletons[x].kind = "object"
                 /\ i <= Len(singletons[x].args)
                 /\ singletons[x].args[i] \in handed[last.name])
                    => singletons[x].args[i] = last.out.val

\* b is resolved on its own after a was constructed with it: the same object.
C6_Witness ==
    /\ Resolved
    /\ last.name = "b"
    /\ "b" \in DOMAIN services
    /\ services["b"].singleton
    /\ "a" \in DOMAIN singletons
    /\ singletons["a"].kind = "object"
    /\ singletons["a"].args = <<last.out.val>>

\* C7. Existence check non-construction: a has(name) call constructs nothing
\* and leaves the singleton cache, the service store and the factory store as
\* they were.
C7_HasConstructsNothing ==
    [][last'.op = "has" =>
          /\ singletons' = singletons
          /\ services' = services
          /\ factories' = factories
          /\ built' = built
          /\ last'.trace = <<>>]_vars

\* has(name) answers true for a registered singleton that is not constructed.
C7_Witness ==
    /\ last.op = "has"
    /\ last.name \in DOMAIN services
    /\ Descriptor.singleton
    /\ IsFunction(Descriptor.implementation)
    /\ last.name \notin DOMAIN singletons
    /\ last.out.val = Boolean(TRUE)

\* C8. Reset completeness: after clear() the three stores are empty; for every
\* name that was registered, has(name) is false and resolve(name) throws
\* ServiceNotRegistered, also when its singleton had been cached.
C8_ResetCompleteness ==
    last.op = "clear" =>
        /\ DOMAIN services = {}
        /\ DOMAIN singletons = {}
        /\ DOMAIN factories = {}
        /\ \A i \in 1..Len(last.trace) :
              LET n == last.trace[i].name
                  r == Resolve(services, ResState(singletons, {}, <<>>), n, 1)
              IN  /\ ~Has(services, factories, n)
                  /\ ~r.out.ok
                  /\ r.out.err = "ServiceNotRegistered"
                  /\ r.out.missing = n

\* clear() dropped three registrations, one of them with a cached singleton.
C8_Witness ==
    /\ last.op = "clear"
    /\ Len(last.trace) = 3
    /\ \E i \in 1..Len(last.trace) : last.trace[i].val # NoVal

\* The names reachable from `name` through the declared dependencies.
DeclaredDependencies(svc, n) ==
    IF n \in DOMAIN svc THEN Range(svc[n].dependencies) ELSE {}

RECURSIVE ReachableIn(_, _, _)
ReachableIn(svc, S, k) ==
    IF k = 0
    THEN S
    ELSE ReachableIn(svc, S \cup UNION {DeclaredDependencies(svc, n) : n \in S}, k - 1)

Reachable(svc, name) == ReachableIn(svc, {name}, Cardinality(Names))

\* C9 as claimed. resolve(name) throws ServiceNotRegistered whenever name, or
\* a name reachable from it through declared dependencies, has no descriptor.
C9_AsClaimed ==
    (/\ last.op = "resolve"
     /\ \E m \in Reachable(services, last.name) : m \notin DOMAIN services)
        => (~last.out.ok /\ last.out.err = "ServiceNotRegistered")

\* The dependencies resolve(n) asks for: those of a name that has no cached
\* instance and whose descriptor names a constructible implementation.
RequiredDependencies(svc, cache, n) ==
    IF /\ n \notin DOMAIN cache
       /\ n \in DOMAIN svc
       /\ svc[n].implementation.kind \in {"class", "arrow"}
    THEN Range(svc[n].dependencies)
    ELSE {}

RECURSIVE RequiredIn(_, _, _, _)
RequiredIn(svc, cache, S, k) ==
    IF k = 0
    THEN S
    ELSE RequiredIn(svc, cache,
                    S \cup UNION {RequiredDependencies(svc, cache, n) : n \in S}, k - 1)

Required(svc, cache, names) == RequiredIn(svc, cache, names, Cardinality(Names))

MissingRequired(svc, cache, name) ==
    \E m \in Required(svc, cache, {name}) : m \notin DOMAIN cache /\ m \notin DOMAIN svc

CyclicRequired(svc, cache, name) ==
    \E n \in Required(svc, cache, {name}) :
        n \in Required(svc, cache, RequiredDependencies(svc, cache, n))

\* C9 as amended. resolve(name) throws ServiceNotRegistered whenever name, or
\* a name reachable from it through the declared dependencies of names that
\* have no cached instance and a constructible implementation, has neither a
\* cached instance nor a descriptor, provided these dependencies form no cycle.
C9_MissingDependency ==
    [][(/\ last'.op = "resolve"
        /\ MissingRequired(services, singletons, last'.name)
        /\ ~CyclicRequired(services, singletons, last'.name))
          => (/\ ~last'.out.ok
              /\ last'.out.err = "ServiceNotRegistered"
              /\ last'.out.missing \notin DOMAIN services
              /\ last'.out.missing \notin DOMAIN singletons')]_vars

\* resolve(a) fails because c, which b needs, has no descriptor.
C9_Witness ==
    /\ last.op = "resolve"
    /\ last.name = "a"
    /\ {"a", "b"} \subseteq DOMAIN services
    /\ ~last.out.ok
    /\ last.out.err = "ServiceNotRegistered"
    /\ last.out.missing = "c"
    /\ Len(last.trace) > 4

\* The events of a resolve that CreateInstance answered with the value itself.
ValueTrace(name, v, single) ==
    <<Event("call", name, 1, NoVal, FALSE), Event("ret", name, 1, v, single)>>

\* C10 as claimed. Plain-value path: when the descriptor's implementation is a
\* pre-built value, resolve returns that value, resolves and constructs no
\* dependency and succeeds whether or not the dependencies are registered.
C10_AsClaimed ==
    (/\ last.op = "resolve"
     /\ last.name \in DOMAIN services
     /\ Descriptor.implementation.kind = "value")
        => /\ last.out.ok
           /\ last.out.val = Descriptor.implementation
           /\ \A i \in 1..Len(last.trace) :
                 last.trace[i].depth = 1 /\ last.trace[i].ev # "new"

\* C10 as amended. When the name has no cached instance and its descriptor's
\* implementation is a pre-built value, resolve returns that value, resolves
\* and constructs no dependency and succeeds whether or not the dependencies
\* are registered.
C10_PlainValue ==
    (/\ last.op = "resolve"
     /\ last.name \in DOMAIN services
     /\ Descriptor.implementation.kind = "value"
     /\ ~TopHit(last.trace))
        => /\ last.out.ok
           /\ last.out.val = Descriptor.implementation
           /\ last.trace = ValueTrace(last.name, Descriptor.implementation,
                                      Descriptor.singleton)

\* A pre-built value with two declared dependencies, neither registered, is
\* resolved.
C10_Witness ==
    /\ last.op = "resolve"
    /\ last.name \in DOMAIN services
    /\ Descriptor.implementation.kind = "value"
    /\ Len(Descriptor.dependencies) = 2
    /\ Range(Descriptor.dependencies) \cap DOMAIN services = {}
    /\ last.out.ok
    /\ last.out.val = ValueV

\* C11 as claimed (its part on the cache). No resolveFactory(name) call adds an
\* entry for the factory's name to the singleton cache.
C11_AsClaimed ==
    [][(last'.op = "resolveFactory" /\ last'.name \in DOMAIN factories)
          => (last'.name \notin DOMAIN singletons
                => last'.name \notin DOMAIN singletons')]_vars

\* C11 as amended. Factories are never cached: every resolveFactory(name) call
\* that returns has invoked the registered factory in this call and returns the
\* object that call built, an object nobody held before; the singleton cache
\* never holds that object, and every entry the call adds to the cache is the
\* instance of a singleton service resolved as a dependency. No entry appears
\* under the factory's name unless a service is registered under that name too.
C11_FactoriesNeverCached ==
    [][(last'.op = "resolveFactory" /\ last'.out.ok)
          => /\ last'.name \in DOMAIN factories
             /\ Len(last'.trace) >= 1
             /\ last'.trace[Len(last'.trace)] =
                   Event("new", NoName, 1, last'.out.val, FALSE)
             /\ last'.out.val.kind = "object"
             /\ last'.out.val.tag = factories[last'.name].factory.tag
             /\ last'.out.val.id \notin UsedIds
             /\ \A n \in DOMAIN singletons' : singletons'[n] # last'.out.val
             /\ \A n \in DOMAIN singletons' \ DOMAIN singletons :
                   /\ n \in DOMAIN services
                   /\ services[n].singleton
                   /\ singletons'[n] \in HandedBy(last'.trace, n)
             /\ last'.name \notin DOMAIN services
                   => last'.name \notin DOMAIN singletons']_vars

\* A factory is invoked twice in a row: two different objects built from the
\* same cached dependency, and no cache entry under the factory's name.
C11_Witness ==
    /\ last.op = "resolveFactory"
    /\ last.out.ok
    /\ last.prior # NoVal
    /\ last.out.val # last.prior
    /\ last.out.val.args = last.prior.args
    /\ last.out.val.args # <<>>
    /\ last.name \notin DOMAIN singletons
    /\ DOMAIN singletons # {}

\* The names registered through registerFactory only, and through register or
\* registerSingleton only.
FactoryOnly == DOMAIN factories \ DOMAIN services

ServiceOnly == DOMAIN services \ DOMAIN factories

\* C12. Disjoint lookup paths: a resolve frame entered for a name registered
\* only as a factory, by the caller or for a dependency of another service,
\* throws ServiceNotRegistered for that name, which ends the whole call; and
\* resolveFactory(name) of a name registered only as a service throws
\* FactoryNotRegistered for that name before it resolves anything.
C12_DisjointLookup ==
    /\ last.op = "resolve" =>
          \A i \in 1..Len(last.trace) :
             (last.trace[i].ev = "call" /\ last.trace[i].name \in FactoryOnly)
                => /\ i + 1 = Len(last.trace)
                   /\ last.trace[i + 1].ev = "throw"
                   /\ ~last.out.ok
                   /\ last.out.err = "ServiceNotRegistered"
                   /\ last.out.missing = last.trace[i].name
    /\ (last.op = "resolveFactory" /\ last.name \in ServiceOnly)
          => /\ ~last.out.ok
             /\ last.out.err = "FactoryNotRegistered"
             /\ last.out.missing = last.name
             /\ last.trace = <<>>

\* A service whose dependency is registered only as a factory is resolved.
C12_Witness ==
    /\ last.op = "resolve"
    /\ last.name \in DOMAIN services
    /\ ~last.out.ok
    /\ last.out.missing \in FactoryOnly
    /\ last.out.missing # last.name

\* resolveFactory is called for a singleton service that is constructed and cached.
C12_WitnessService ==
    /\ last.op = "resolveFactory"
    /\ last.name \in ServiceOnly
    /\ last.name \in DOMAIN singletons
    /\ DOMAIN factories # {}

\* What resolve(name) would answer in the current state.
WouldResolve(name) == Resolve(services, ResState(singletons, UsedIds, <<>>), name, 1).out

\* C13. has(name) returns true exactly when name is a key of the service store
\* or of the factory store, whatever the singleton cache holds and whether or
\* not resolve(name) would succeed.
C13_HasExactly ==
    last.op = "has" =>
        /\ last.out.ok
        /\ last.out.val \in {Boolean(TRUE), Boolean(FALSE)}
        /\ last.out.val = Boolean(TRUE)
              <=> (last.name \in DOMAIN services \/ last.name \in DOMAIN factories)

\* has(name) is true for a name that is registered only as a factory, which
\* resolve(name) rejects, while the cache holds other names.
C13_Witness ==
    /\ last.op = "has"
    /\ last.out.val = Boolean(TRUE)
    /\ last.name \in FactoryOnly
    /\ ~WouldResolve(last.name).ok
    /\ DOMAIN singletons # {}

\* has(name) is true for a service that resolve(name) cannot construct.
C13_WitnessUnresolvable ==
    /\ last.op = "has"
    /\ last.out.val = Boolean(TRUE)
    /\ last.name \in DOMAIN services
    /\ ~WouldResolve(last.name).ok

\* C14. getRegisteredServices() returns the names of the service store, each
\* once and no other: also those never resolved, not those registered as
\* factories only, and none after clear().
C14_RegisteredServices ==
    last.op = "getRegisteredServices" =>
        /\ last.out.ok
        /\ last.out.val.kind = "array"
        /\ Range(last.out.val.args) = DOMAIN services
        /\ Len(last.out.val.args) = Cardinality(DOMAIN services)
        /\ DOMAIN services = {} => last.out.val.args = <<>>

\* The list names a service that was never resolved and leaves out a name that
\* is registered as a factory only.
C14_Witness ==
    /\ last.op = "getRegisteredServices"
    /\ \E n \in Range(last.out.val.args) : n \notin DOMAIN singletons
    /\ FactoryOnly # {}
    /\ Range(last.out.val.args) \cap FactoryOnly = {}

\* The list of the bootstrapped application names its seven services.
C14_WitnessBootstrap ==
    /\ last.op = "getRegisteredServices"
    /\ Len(last.out.val.args) = 7

\* C15. Re-registration is last-write-wins: a register or registerSingleton
\* call never throws, and after it the service store holds for the name the
\* descriptor the call was given (implementation, dependencies and singleton
\* flag), whatever it held before, and for every other name what it held.
C15_LastWriteWins ==
    [][last'.op = "register"
          => /\ last'.out.ok
             /\ Len(last'.trace) = 1
             /\ last'.trace[1].name = last'.name
             /\ DOMAIN services' = DOMAIN services \cup {last'.name}
             /\ services'[last'.name] = last'.trace[1].config
             /\ services'[last'.name].factory = FALSE
             /\ \A n \in DOMAIN services \ {last'.name} : services'[n] = services[n]]_vars

\* A name whose cached instance was built by a singleton class is registered
\* again as a pre-built value without the singleton flag.
C15_Witness ==
    /\ last.op = "register"
    /\ last.name \in DOMAIN singletons
    /\ singletons[last.name].kind = "object"
    /\ services[last.name].implementation = ValueV
    /\ ~services[last.name].singleton

\* The seven services of the application.
SevenServices ==
    {"config", "logger", "databaseService", "emailService", "studentRepository",
     "studentService", "studentController"}

\* The application has run registerServices() and has not cleared the container.
Bootstrapped == catalogue.title = "bootstrap" /\ DOMAIN services # {}

\* C16. Bootstrap completeness: once registerServices() has run,
\* getRegisteredServices() lists the seven services, every declared dependency
\* is registered, no service depends on itself through the declared
\* dependencies, and resolve of each of the seven names succeeds.
C16_BootstrapComplete ==
    Bootstrapped =>
        /\ SevenServices \subseteq Range(GetRegisteredServices(services).args)
        /\ \A n \in SevenServices :
              /\ n \in DOMAIN services
              /\ Range(services[n].dependencies) \subseteq DOMAIN services
              /\ n \notin ReachableIn(services, DeclaredDependencies(services, n),
                                      Cardinality(SevenServices))
              /\ WouldResolve(n).ok
              /\ WouldResolve(n).val # NoVal
        /\ (last.op = "resolve" /\ last.name \in SevenServices) => last.out.ok

\* resolve('studentController') right after the bootstrap constructs the six
\* classes of the application.
C16_Witness ==
    /\ Bootstrapped
    /\ last.op = "resolve"
    /\ last.name = "studentController"
    /\ last.out.ok
    /\ Len(Constructed(last.trace)) = 6
    /\ DOMAIN singletons = SevenServices

\* The sequences that list every element of S once.
RECURSIVE Perms(_)
Perms(S) ==
    IF S = {}
    THEN {<<>>}
    ELSE UNION {{<<x>> \o p : p \in Perms(S \ {x})} : x \in S}

\* The service store a fresh container holds after registering, in the order
\* of `names`, each name with the descriptor it has in `svc`.
RECURSIVE Replayed(_, _, _, _)
Replayed(svc, names, i, store) ==
    IF i > Len(names)
    THEN store
    ELSE Replayed(svc, names, i + 1,
                  Registered(store, names[i], svc[names[i]].implementation,
                             svc[names[i]].singleton, svc[names[i]].dependencies))

FirstRequired(svc, cache, n) ==
    IF /\ n \notin DOMAIN cache
       /\ n \in DOMAIN svc
       /\ svc[n].implementation.kind \in {"class", "arrow"}
       /\ svc[n].dependencies # <<>>
    THEN svc[n].dependencies[1]
    ELSE NoName

\* The name whose frame is k levels below the frame of resolve(n) when every
\* frame asks for its first dependency.
RECURSIVE FollowFirst(_, _, _, _)
FollowFirst(svc, cache, n, k) ==
    IF k = 0 \/ n = NoName
    THEN n
    ELSE FollowFirst(svc, cache, FirstRequired(svc, cache, n), k - 1)

\* The name is on a dependency cycle of constructible services, none of them
\* cached: asking for the dependencies leads from the name back to it.
OnCycle(svc, cache, name) ==
    \E k \in 1..Cardinality(DOMAIN svc) : FollowFirst(svc, cache, name, k) = name

C18_WitnessCached ==
    /\ last.op = "resolve"
    /\ last.name = "a"
    /\ last.out.ok
    /\ {"a", "b"} \subseteq DOMAIN services
    /\ services["a"].dependencies[1] = "b"
    /\ services["b"].dependencies = <<"a">>

\* Two callers have returned from resolve(name) of a singleton-flagged name,
\* and both had found the cache without it.
BothMissed(c1, c2) ==
    /\ c1 # c2
    /\ frames[c1].pc = "returned"
    /\ frames[c2].pc = "returned"
    /\ frames[c1].miss
    /\ frames[c2].miss
    /\ frames[c1].name = frames[c2].name
    /\ services[frames[c1].name].singleton

\* C19. Unsynchronized check-then-act: when two resolve calls of the same
\* singleton name have both passed the cache check before either wrote the
\* cache, each constructs its own instance, the cache holds the instance of
\* the caller that wrote last, and the other caller holds a different instance
\* that is not in the cache.
C19_CheckThenAct ==
    \A c1, c2 \in Callers :
        BothMissed(c1, c2) =>
            LET name == frames[c1].name
            IN  /\ frames[c1].instance.kind = "object"
                /\ frames[c2].instance.kind = "object"
                /\ frames[c1].instance # frames[c2].instance
                /\ name \in DOMAIN singletons
                /\ singletons[name] = last.out.val
                /\ singletons[name] \in {frames[c1].instance, frames[c2].instance}
                /\ \E c \in {c1, c2} :
                      /\ frames[c].instance # singletons[name]
                      /\ \A n \in DOMAIN singletons : singletons[n] # frames[c].instance

\* Both callers resolved a after both had missed it.
C19_Witness ==
    /\ BothMissed(1, 2)
    /\ frames[1].name = "a"
    /\ singletons["a"] = frames[2].instance
    /\ frames[1].instance # frames[2].instance

\* C20. Synchronous execution: register, resolve and resolveFactory run to
\* completion as one step, so that no caller is ever in the middle of a call
\* when another operation begins, and in no reachable state are there two
\* instances for a cached singleton name: the name was constructed once, and
\* whatever resolve returned for it is the cached instance.
C20_Synchronous ==
    /\ \A c \in Callers : frames[c] = Idle
    /\ \A n \in DOMAIN singletons :
          /\ built[n] <= 1
          /\ handed[n] \subseteq {singletons[n]}

\* One resolve call has constructed and cached a service and its two nested
\* dependencies, and no caller is in the middle of a call.
C20_Witness ==
    /\ last.op = "resolve"
    /\ last.out.ok
    /\ Len(Constructed(last.trace)) = 3
    /\ \A n \in Names : n \in DOMAIN singletons /\ built[n] = 1
    /\ \A c \in Callers : frames[c].pc = "idle"

\* The names for which a resolve frame of the trace returned a newly created
\* instance under a singleton-flagged descriptor, with that instance.
CachedBy(trace) ==
    {<<trace[i].name, trace[i].val>> :
        i \in {j \in 1..Len(trace) : trace[j].ev = "ret" /\ trace[j].single}}

\* C21. Singleton cache lifecycle: every step that adds a cache entry is a
\* resolve or resolveFactory in which a resolve frame of a singleton-flagged
\* descriptor returned that instance; register, registerSingleton,
\* registerFactory, registerServices, has and getRegisteredServices leave the
\* cache unchanged; only clear() removes or replaces an entry; and resolve and
\* resolveFactory leave the service store and the factory store unchanged.
C21_CacheLifecycle ==
    [][/\ \A n \in DOMAIN singletons' \ DOMAIN singletons :
             /\ last'.op \in {"resolve", "resolveFactory"}
             /\ n \in DOMAIN services
             /\ services[n].singleton
             /\ <<n, singletons'[n]>> \in CachedBy(last'.trace)
       /\ last'.op \in {"register", "registerFactory", "registerServices", "has",
                        "getRegisteredServices"}
             => singletons' = singletons
       /\ last'.op # "clear"
             => \A n \in DOMAIN singletons :
                   n \in DOMAIN singletons' /\ singletons'[n] = singletons[n]
       /\ last'.op \in {"resolve", "resolveFactory"}
             => services' = services /\ factories' = factories]_vars

\* A resolveFactory call has added the singleton its factory depends on to the
\* cache, and nothing under the factory's name.
C21_Witness ==
    /\ last.op = "resolveFactory"
    /\ last.out.ok
    /\ CachedBy(last.trace) # {}
    /\ \A e \in CachedBy(last.trace) : e[1] \in DOMAIN singletons /\ singletons[e[1]] = e[2]
    /\ last.name \notin DOMAIN singletons

\* The events of the trace at which a resolve frame for `name` returned.
ReturnsOf(trace, name) ==
    {i \in 1..Len(trace) : trace[i].ev \in {"hit", "ret"} /\ trace[i].name = name}

\* The name is registered without the singleton flag, with a constructible
\* implementation, and has no cached instance.
Transient(svc, cache, name) ==
    /\ name \in DOMAIN svc
    /\ ~svc[name].singleton
    /\ svc[name].implementation.kind \in {"class", "arrow"}
    /\ name \notin DOMAIN cache

\* C22 as claimed. A service that lists a dependency registered without the
\* singleton flag twice receives two distinct instances of it.
C22_AsClaimed ==
    [][(last'.op = "resolve" /\ last'.out.ok /\ TopBuilt(last'.trace)) =>
          \A i, j \in 1..Len(last'.out.val.args) :
             (/\ i < j
              /\ services[last'.name].dependencies[i] = services[last'.name].dependencies[j]
              /\ services[last'.name].dependencies[i] \in DOMAIN services
              /\ ~services[services[last'.name].dependencies[i]].singleton)
                => last'.out.val.args[i] # last'.out.val.args[j]]_vars

\* C22 as amended. No memoization of transient dependencies: within one resolve or
\* resolveFactory call, every resolve frame of a transient name (registered
\* without the singleton flag, constructible, not cached) constructs an
\* instance of its own, different from the instances of the other frames of
\* that name (a name listed twice, or needed by two dependencies), whereas all
\* frames of a singleton-flagged name return one instance, constructed at most
\* once in the call.
C22_NoTransientMemo ==
    [][last'.op \in {"resolve", "resolveFactory"} =>
          \A n \in Names :
             LET R == ReturnsOf(last'.trace, n)
             IN  /\ Transient(services, singletons, n) =>
                       \A i \in R :
                          /\ last'.trace[i].ev = "ret"
                          /\ ConstructedAt(last'.trace, i - 1)
                          /\ \A j \in R \ {i} : last'.trace[j].val # last'.trace[i].val
                 /\ (n \in DOMAIN services /\ services[n].singleton) =>
                       /\ \A i, j \in R : last'.trace[i].val = last'.trace[j].val
                       /\ Cardinality({i \in R : ConstructedAt(last'.trace, i - 1)}) <= 1
                 /\ (last'.op = "resolve" /\ last'.out.ok /\ TopBuilt(last'.trace)) =>
                       \A i, j \in 1..Len(last'.out.val.args) :
                          (/\ i < j
                           /\ services[last'.name].dependencies[i] = n
                           /\ services[last'.name].dependencies[j] = n)
                             => /\ Transient(services, singletons, n)
                                   => last'.out.val.args[i] # last'.out.val.args[j]
                                /\ services[n].singleton
                                   => last'.out.val.args[i] = last'.out.val.args[j]]_vars

\* resolve(a) of the diamond with a transient d: b and c hold different
\* instances of d.
C22_Witness ==
    /\ last.op = "resolve"
    /\ last.out.ok
    /\ Len(Constructed(last.trace)) = 5
    /\ Len(last.out.val.args) = 2
    /\ \A i \in 1..2 : Len(last.out.val.args[i].args) = 1
    /\ last.out.val.args[1].args[1] # last.out.val.args[2].args[1]

\* resolve(a) of the diamond with a singleton d: b and c hold the same d.
C22_WitnessSingleton ==
    /\ last.op = "resolve"
    /\ last.out.ok
    /\ Len(Constructed(last.trace)) = 4
    /\ Len(last.out.val.args) = 2
    /\ \A i \in 1..2 : Len(last.out.val.args[i].args) = 1
    /\ last.out.val.args[1].args[1] = last.out.val.args[2].args[1]

\* A service that lists a transient dependency twice holds two instances of it.
C22_WitnessTwice ==
    /\ last.op = "resolve"
    /\ last.out.ok
    /\ last.name \in DOMAIN services
    /\ Descriptor.dependencies = <<"c", "c">>
    /\ Len(last.out.val.args) = 2
    /\ last.out.val.args[1] # last.out.val.args[2]

\* The factory function was invoked during the call.
FactoryInvoked(trace) ==
    \E i \in 1..Len(trace) : trace[i].ev = "new" /\ trace[i].depth = 1

\* C23. Factories resolve their dependencies through resolve: a successful
\* resolveFactory(name) calls resolve on each declared dependency in declared
\* order and passes the results to the factory in that order; a singleton
\* dependency passed is the instance the singleton cache holds after the call,
\* the one it held before the call when it held one, and the one the previous
\* resolveFactory(name) call passed; a dependency without descriptor makes the
\* call fail with ServiceNotRegistered, and no failing call invokes the factory.
C23_FactoryDependencies ==
    [][(last'.op = "resolveFactory" /\ last'.name \in DOMAIN factories) =>
          LET dependencies == factories[last'.name].dependencies
              args         == last'.out.val.args
          IN  /\ last'.out.ok =>
                    /\ DirectCalls(last'.trace) = dependencies
                    /\ args = DirectReturns(last'.trace)
                    /\ FactoryInvoked(last'.trace)
                    /\ \A i \in 1..Len(dependencies) :
                          LET d == dependencies[i]
                          IN  /\ d \in DOMAIN services
                              /\ services[d].singleton =>
                                    /\ d \in DOMAIN singletons'
                                    /\ singletons'[d] = args[i]
                                    /\ d \in DOMAIN singletons => singletons[d] = args[i]
                                    /\ last'.prior # NoVal => last'.prior.args[i] = args[i]
              /\ (\E i \in 1..Len(dependencies) : dependencies[i] \notin DOMAIN services) =>
                    /\ ~last'.out.ok
                    /\ last'.out.err = "ServiceNotRegistered"
                    /\ last'.out.missing \in Range(dependencies) \ DOMAIN services
              /\ ~last'.out.ok => ~FactoryInvoked(last'.trace)]_vars

\* The second of two resolveFactory calls in a row: the factory was handed the
\* singleton dependency that the first call constructed and cached, and built
\* a product different from the first.
C23_Witness ==
    /\ last.op = "resolveFactory"
    /\ last.out.ok
    /\ last.prior # NoVal
    /\ last.prior # last.out.val
    /\ last.out.val.args # <<>>
    /\ last.out.val.args = last.prior.args
    /\ \A i \in 1..Len(last.trace) : last.trace[i].depth = 2 => last.trace[i].ev # "new"
    /\ singletons[factories[last.name].dependencies[1]] = last.out.val.args[1]

\* A resolveFactory call failed on a dependency without descriptor.
C23_WitnessMissing ==
    /\ last.op = "resolveFactory"
    /\ last.name \in DOMAIN factories
    /\ ~last.out.ok
    /\ last.out.err = "ServiceNotRegistered"
    /\ last.out.missing = factories[last.name].dependencies[1]

\* The resolve frame of the given depth that was entered last.
LastCallAt(trace, depth) ==
    CHOOSE i \in 1..Len(trace) :
        /\ trace[i].ev = "call"
        /\ trace[i].depth = depth
        /\ \A j \in (i + 1)..Len(trace) : ~(trace[j].ev = "call" /\ trace[j].depth = depth)

\* The frames that were open when the call ended: by depth, the name each was
\* called with.
OpenPath(trace) ==
    [d \in 1..(trace[Len(trace)].depth - 1) |-> trace[LastCallAt(trace, d)].name]

\* C24. Error identity and propagation: a resolve that fails with
\* ServiceNotRegistered ends with the throw raised for the missing name D, the
\* only throw of the call; the error names D, which has no descriptor and,
\* when the throw came from a nested frame, is not the name the caller asked
\* for; the frames open at the throw form a chain of declared dependencies
\* from the requested name to D, and none of them built or cached or returned
\* an instance.
C24_ErrorPropagation ==
    (last.op = "resolve" /\ ~last.out.ok /\ last.out.err = "ServiceNotRegistered") =>
        LET trace == last.trace
            k     == Len(trace)
            path  == OpenPath(trace)
        IN  /\ trace[k].ev = "throw"
            /\ trace[k].name = last.out.missing
            /\ \A i \in 1..(k - 1) : trace[i].ev # "throw"
            /\ last.out.missing \notin DOMAIN services
            /\ last.out.val = NoVal
            /\ trace[k].depth > 1 =>
                  /\ last.out.missing # last.name
                  /\ path[1] = last.name
                  /\ last.out.missing \in Range(services[path[Len(path)]].dependencies)
            /\ \A d \in DOMAIN path :
                  /\ path[d] \in DOMAIN services
                  /\ path[d] \notin DOMAIN singletons
                  /\ d > 1 => path[d] \in Range(services[path[d - 1]].dependencies)
                  /\ \A j \in LastCallAt(trace, d)..k :
                        trace[j].depth = d => trace[j].ev = "call"

\* resolve(a) fails two levels down: b, which a needs, needs c, and c has no
\* descriptor; the error names c and neither a nor b was built, although both
\* are singleton-flagged.
C24_Witness ==
    /\ last.op = "resolve"
    /\ ~last.out.ok
    /\ last.out.err = "ServiceNotRegistered"
    /\ last.trace[Len(last.trace)].depth = 3
    /\ OpenPath(last.trace) = <<"a", "b">>
    /\ last.out.missing = "c"
    /\ services["a"].singleton
    /\ services["b"].singleton
    /\ singletons = EmptyMap

\* The events of a resolve answered from the singleton cache.
HitTrace(name, v, single) ==
    <<Event("call", name, 1, NoVal, FALSE), Event("hit", name, 1, v, single)>>

\* C25. Stale cache after re-registration: across every step other than
\* clear, in particular a register of the name with another implementation,
\* other dependencies or without the singleton flag, a name with a cached
\* instance still resolves to that instance, by a cache hit that reads neither
\* the descriptor's implementation nor its dependencies; and a resolve of a
\* cached name returns the cached instance in that way.
C25_StaleCache ==
    [][/\ last'.op # "clear" =>
             \A n \in DOMAIN singletons :
                LET r == Resolve(services', ResState(singletons', {}, <<>>), n, 1)
                IN  /\ r.out = Returned(singletons[n])
                    /\ r.st.singletons = singletons'
                    /\ r.st.trace =
                          HitTrace(n, singletons[n],
                                   n \in DOMAIN services' /\ services'[n].singleton)
       /\ (last'.op = "resolve" /\ last'.name \in DOMAIN singletons) =>
             /\ last'.out = Returned(singletons[last'.name])
             /\ Len(last'.trace) = 2
             /\ TopHit(last'.trace)
             /\ singletons' = singletons]_vars

\* A name was resolved as a singleton class, re-registered without the
\* singleton flag and as a pre-built value, and resolved again: the call
\* returned the cached object.
C25_Witness ==
    /\ last.op = "resolve"
    /\ last.out.ok
    /\ last.name \in DOMAIN services
    /\ last.name \in DOMAIN singletons
    /\ ~Descriptor.singleton
    /\ Descriptor.implementation.kind = "value"
    /\ last.out.val.kind = "object"
    /\ last.out.val = singletons[last.name]
    /\ TopHit(last.trace)

\* C26. State after a failed resolve: a resolve(name) that raises
\* ServiceNotRegistered leaves name out of the singleton cache and leaves the
\* service and factory stores as they were; the cache after the call is the
\* cache before it plus every singleton dependency whose resolve returned
\* during the call, before the failing one: nothing is rolled back.
C26_FailedResolveState ==
    [][(/\ last'.op = "resolve"
        /\ ~last'.out.ok
        /\ last'.out.err = "ServiceNotRegistered") =>
          /\ last'.name \notin DOMAIN singletons'
          /\ services' = services
          /\ factories' = factories
          /\ \A n \in DOMAIN singletons :
                n \in DOMAIN singletons' /\ singletons'[n] = singletons[n]
          /\ \A e \in CachedBy(last'.trace) :
                /\ e[1] \notin DOMAIN singletons
                /\ e[1] \in DOMAIN singletons'
                /\ singletons'[e[1]] = e[2]
          /\ DOMAIN singletons' =
                DOMAIN singletons \cup {e[1] : e \in CachedBy(last'.trace)}]_vars

\* resolve(a) failed on its second dependency, which has no descriptor, after
\* its first dependency, a singleton, was built and cached by the call; the
\* instance is still cached.
C26_Witness ==
    /\ last.op = "resolve"
    /\ ~last.out.ok
    /\ last.out.err = "ServiceNotRegistered"
    /\ last.name \in DOMAIN services
    /\ Len(Descriptor.dependencies) = 2
    /\ last.out.missing = Descriptor.dependencies[2]
    /\ CachedBy(last.trace) # {}
    /\ \A e \in CachedBy(last.trace) :
          /\ e[1] = Descriptor.dependencies[1]
          /\ e[1] \in DOMAIN singletons
          /\ singletons[e[1]] = e[2]
    /\ last.name \notin DOMAIN singletons

\* No descriptor is reachable from its own declared dependencies.
Acyclic(svc) ==
    \A n \in DOMAIN svc :
        n \notin ReachableIn(svc, DeclaredDependencies(svc, n), Cardinality(Names))

\* The deepest resolve frame of the trace.
Deepest(trace) ==
    IF trace = <<>>
    THEN 0
    ELSE CHOOSE d \in {trace[i].depth : i \in 1..Len(trace)} :
            \A i \in 1..Len(trace) : trace[i].depth <= d

\* C27. Termination on acyclic graphs: when the declared dependency graph of
\* the descriptors is acyclic, resolve(name) completes for every name, with an
\* instance or with ServiceNotRegistered and never by exhausting the call
\* stack, and the resolve frames of a call nest no deeper than the number of
\* descriptors plus one.
C27_AcyclicTerminates ==
    Acyclic(services) =>
        /\ \A n \in Names :
              \/ WouldResolve(n).ok
              \/ WouldResolve(n).err = "ServiceNotRegistered"
        /\ last.op = "resolve" =>
              /\ last.out.ok \/ last.out.err = "ServiceNotRegistered"
              /\ Deepest(last.trace) <= Cardinality(DOMAIN services) + 1
              /\ \A i \in 1..Len(last.trace) : last.trace[i].depth <= MaxStack

\* resolve(a) of the diamond completed with every descriptor constructed: the
\* frames nested three deep, as many as the longest path has names.
C27_Witness ==
    /\ last.op = "resolve"
    /\ last.out.ok
    /\ Acyclic(services)
    /\ Cardinality(DOMAIN services) = 4
    /\ Deepest(last.trace) = 3
    /\ Len(Constructed(last.trace)) >= 4

\* resolve(a) of an acyclic chain completed with ServiceNotRegistered, one
\* frame deeper than there are descriptors.
C27_WitnessMissing ==
    /\ last.op = "resolve"
    /\ ~last.out.ok
    /\ last.out.err = "ServiceNotRegistered"
    /\ Acyclic(services)
    /\ Deepest(last.trace) = Cardinality(DOMAIN services) + 1
    /\ Cardinality(DOMAIN services) = 2

\* C28. Cache within registry: in every state reachable by register,
\* registerSingleton, registerFactory, resolve, resolveFactory, has,
\* getRegisteredServices and clear calls, every name with an entry in the
\* singleton cache has a descriptor in the service store.
C28_CacheWithinRegistry ==
    DOMAIN singletons \subseteq DOMAIN services

\* Two names are cached, one of them re-registered since without the
\* singleton flag, and another descriptor has no cached instance.
C28_Witness ==
    /\ last.op = "resolve"
    /\ last.out.ok
    /\ last.name \in DOMAIN singletons
    /\ Cardinality(DOMAIN singletons) >= 2
    /\ DOMAIN services \ DOMAIN singletons # {}
    /\ \E n \in DOMAIN singletons : ~services[n].singleton

\* C29 as claimed. Consumers only resolve registered names: after
\* registerServices() every name the application modules request from the
\* container ('studentController', 'studentService', 'config', 'logger' and the
\* secure router's 'loggerService') has a descriptor, and resolve of none of
\* them raises ServiceNotRegistered.
C29_AsClaimed ==
    Bootstrapped =>
        \A n \in ConsumerNames :
            /\ n \in DOMAIN services
            /\ WouldResolve(n).err # "ServiceNotRegistered"

\* After registerServices() the secure router's resolve('studentService')
\* succeeded and its resolve('loggerService') raised ServiceNotRegistered for
\* 'loggerService'; the other requested names have descriptors.
C29_Witness ==
    /\ Bootstrapped
    /\ last.op = "resolve"
    /\ last.name = "loggerService"
    /\ last.out = ServiceNotRegistered("loggerService")
    /\ "studentService" \in DOMAIN singletons
    /\ ConsumerNames \ DOMAIN services = {"loggerService"}
    /\ \A n \in ConsumerNames \ {"loggerService"} : WouldResolve(n).ok

\* C30. Bootstrap is idempotent for consumers: a registerServices() call on
\* the process-wide container, whatever was resolved before it, leaves the
\* singleton cache as it was, so getService(name) of every name resolved
\* before still returns the same instance, from the cache and without a
\* construction; and no singleton of the bootstrap is constructed more than
\* once, however often registerServices() runs between the resolves.
C30_BootstrapIdempotent ==
    [][/\ last'.op = "registerServices" =>
             /\ singletons' = singletons
             /\ built' = built
             /\ handed' = handed
             /\ \A n \in DOMAIN singletons :
                   LET r == Resolve(services', ResState(singletons', {}, <<>>), n, 1)
                   IN  /\ r.out = Returned(singletons[n])
                       /\ r.st.trace =
                             HitTrace(n, singletons[n],
                                      n \in DOMAIN services' /\ services'[n].singleton)
       /\ Bootstrapped' =>
             \A n \in SevenServices :
                /\ built'[n] <= 1
                /\ Cardinality(handed'[n]) <= 1
                /\ n \in DOMAIN singletons' => handed'[n] = {singletons'[n]}]_vars

\* registerServices() ran again after some, not all, of the seven services
\* were resolved and constructed.
C30_Witness ==
    /\ Bootstrapped
    /\ last.op = "registerServices"
    /\ "studentService" \in DOMAIN singletons
    /\ "studentController" \notin DOMAIN singletons
    /\ built["studentService"] = 1
    /\ handed["studentService"] = {singletons["studentService"]}

=============================================================================
